---------------------------- MODULE Spec2Model ----------------------------
(***************************************************************************)
(* get-compatible-pgp-subkeys: the timestamp extractors (raw and armored), *)
(* the key classifier and the directory scan of main(), as one sequential  *)
(* state machine.  Files are byte sequences; the results of readdir, stat, *)
(* fopen, fseek, opendir, malloc and rename are inputs of the environment. *)
(***************************************************************************)
EXTENDS Integers, Sequences, FiniteSets, TLC

VARIABLES
    argc,             \* main's argc
    pc,               \* position in main / pgp_key_extract_timestamp
    exitCode,         \* -1 while running, else the process's exit code
    hostLE,           \* the build's byte order (TRUE: little endian)
    timestamp_query,  \* main's timestamp_query, as its 4 bytes in memory
    timestamp,        \* main's timestamp, as its 4 bytes in memory
    primary,          \* the file at argv[2]
    fault,            \* which of opendir / malloc failed, "none" if none
    nread,            \* number of entries readdir has returned
    ent,              \* the entry readdir returned last
    caller,           \* who called pgp_key_extract_timestamp
    path,             \* its file_path argument
    cur,              \* the file at file_path
    handles,          \* the FILE handles that are open
    file,             \* pgp_key_extract_timestamp's local: FILE* and cursor
    ret,              \* its return value (-1: none yet)
    diag,             \* stderr lines written for the current entry / call
    out,              \* stdout lines written for the current entry
    calls,            \* pgp_key_extract_timestamp calls for the current entry
    ops,              \* file-system calls issued for the current entry / call
    sel,              \* file offset of the line the dearmor loop selected (-1)
    written           \* what g_base64_decode_step returned (-1: not called)

vars == <<argc, pc, exitCode, hostLE, timestamp_query, timestamp, primary,
          fault, nread, ent, caller, path, cur, handles, file, ret, diag,
          out, calls, ops, sel, written>>

-----------------------------------------------------------------------------
(* Bounds of the model *)

\* directory entries one scan enumerates
MaxEntries == 2

(* Constants of the program *)

\* char line[67]
LineBuf == 67
\* char key_armor_check_buf[5]
ArmorCheckLen == 5
\* fseek(file, 3, SEEK_SET)
TimestampOffset == 3
\* sizeof(unsigned int)
TimestampSize == 4
\* timestamp_base64_pos = line + 4
Base64Offset == 4
\* limits.h NAME_MAX, as used for file_path_len and dest_file_path_len
NAME_MAX == 255

NL == 10
Dash == 45
Colon == 58
Eq == 61

-----------------------------------------------------------------------------
(* Bytes and strings *)

Rep(c, n) == [i \in 1..n |-> c]

Min(a, b) == IF a < b THEN a ELSE b

\* A 32-bit unsigned value is written as its four base-256 digits, the most
\* significant first (2^32 - 1 is above the integers TLC computes with).

\* the value of an unsigned int whose 4 bytes in memory are m
Value(m, le) == IF le THEN << m[4], m[3], m[2], m[1] >> ELSE m

\* a >= b on unsigned 32-bit values
UGe(a, b) ==
    \/ a = b
    \/ \E i \in 1..4 : a[i] > b[i] /\ \A j \in 1..(i - 1) : a[j] = b[j]

\* the C string held in a buffer: its bytes up to the first NUL
CStr(buf) ==
    IF \E i \in 1..Len(buf) : buf[i] = 0
    THEN SubSeq(buf, 1, (CHOOSE i \in 1..Len(buf) :
                            buf[i] = 0 /\ \A j \in 1..(i - 1) : buf[j] # 0) - 1)
    ELSE buf

\* strchr(s, c) != NULL
Strchr(s, c) == \E i \in 1..Len(s) : s[i] = c

-----------------------------------------------------------------------------
(* Base64: the alphabet, an encoder (to build armored inputs) and GLib's    *)
(* g_base64_decode_step, which the dearmor path calls.                     *)

B64Char(i) ==
    IF i < 26 THEN 65 + i
    ELSE IF i < 52 THEN 97 + (i - 26)
    ELSE IF i < 62 THEN 48 + (i - 52)
    ELSE IF i = 62 THEN 43 ELSE 47

\* mime_base64_rank: 255 for a character outside the alphabet, 0 for '='
Rank(c) ==
    IF c >= 65 /\ c <= 90 THEN c - 65
    ELSE IF c >= 97 /\ c <= 122 THEN c - 97 + 26
    ELSE IF c >= 48 /\ c <= 57 THEN c - 48 + 52
    ELSE IF c = 43 THEN 62
    ELSE IF c = 47 THEN 63
    ELSE IF c = Eq THEN 0
    ELSE 255

RECURSIVE B64Enc(_)
B64Enc(b) ==
    IF Len(b) = 0 THEN << >>
    ELSE IF Len(b) = 1 THEN
        << B64Char(b[1] \div 4), B64Char((b[1] % 4) * 16), Eq, Eq >>
    ELSE IF Len(b) = 2 THEN
        << B64Char(b[1] \div 4), B64Char((b[1] % 4) * 16 + b[2] \div 16),
           B64Char((b[2] % 16) * 4), Eq >>
    ELSE
        << B64Char(b[1] \div 4), B64Char((b[1] % 4) * 16 + b[2] \div 16),
           B64Char((b[2] % 16) * 4 + b[3] \div 64), B64Char(b[3] % 64) >>
        \o B64Enc(SubSeq(b, 4, Len(b)))

\* the decoder's loop over in[k..], with its locals v, i, last[0], last[1]
\* and the bytes written so far; of the accumulator v only the low 24 bits,
\* the ones the three stores read, are kept
RECURSIVE DecodeLoop(_, _, _, _, _, _, _)
DecodeLoop(in, k, v, i, last0, last1, outp) ==
    IF k > Len(in) THEN outp
    ELSE IF Rank(in[k]) = 255 THEN DecodeLoop(in, k + 1, v, i, last0, last1, outp)
    ELSE
        LET v2 == (v % 262144) * 64 + Rank(in[k])
            l1 == last0
            l0 == in[k]
        IN  IF i + 1 = 4
            THEN DecodeLoop(in, k + 1, v2, 0, l0, l1,
                    outp \o << (v2 \div 65536) % 256 >>
                         \o (IF l1 # Eq THEN << (v2 \div 256) % 256 >> ELSE << >>)
                         \o (IF l0 # Eq THEN << v2 % 256 >> ELSE << >>))
            ELSE DecodeLoop(in, k + 1, v2, i + 1, l0, l1, outp)

\* g_base64_decode_step(in, len, out, &state, &save) with state = 0, save = 0:
\* the bytes it writes to out
G_base64_decode_step(in) == DecodeLoop(in, 1, 0, 0, 0, 0, << >>)

-----------------------------------------------------------------------------
(* The key files the runs are given.  A content is named by a record       *)
(* [k, t, n, h]; Bytes gives the file's bytes.                             *)

\* creation times stored in the keys
\* 1700000000, the second before it, the second after it, and 2^32 - 1
T0 == << 101, 83, 241, 0 >>
Times == { << 101, 83, 240, 255 >>, T0, << 101, 83, 241, 1 >>, << 255, 255, 255, 255 >> }

\* a version-4 public-key packet of n >= 7 bytes created at t: tag 0x98,
\* one-byte length, version 4, the creation time in network byte order, key
\* material
Packet(t, n) ==
    << 152, n - 2, 4 >> \o t \o [i \in 1..(n - 7) |-> (i * 37 + 11) % 256]

Dashes == << 45, 45, 45, 45, 45 >>
BeginText == << 66, 69, 71, 73, 78, 32, 80, 71, 80, 32, 80, 85, 66, 76, 73, 67,
                32, 75, 69, 89, 32, 66, 76, 79, 67, 75 >>
EndText == << 69, 78, 68, 32, 80, 71, 80, 32, 80, 85, 66, 76, 73, 67, 32, 75,
              69, 89, 32, 66, 76, 79, 67, 75 >>
CommentText == << 67, 111, 109, 109, 101, 110, 116, 58, 32 >>
VersionText == << 86, 101, 114, 115, 105, 111, 110, 58, 32 >>

\* -----BEGIN PGP PUBLIC KEY BLOCK----- and -----END PGP PUBLIC KEY BLOCK-----
HeaderLine == Dashes \o BeginText \o Dashes \o << NL >>
FooterLine == Dashes \o EndText \o Dashes \o << NL >>

\* radix-64 text cut into lines of 64 characters
RECURSIVE Wrap64(_)
Wrap64(s) ==
    IF Len(s) = 0 THEN << >>
    ELSE IF Len(s) <= 64 THEN s \o << NL >>
    ELSE SubSeq(s, 1, 64) \o << NL >> \o Wrap64(SubSeq(s, 65, Len(s)))

\* the armor header lines a key block may carry before the blank line
ArmorHeaders(h) ==
    CASE h = "none"      -> << >>
      [] h = "version"   -> VersionText \o << 49, NL >>
      [] h = "comment65" -> CommentText \o Rep(120, 55) \o << NL >>
      [] h = "comment99" -> CommentText \o Rep(120, 89) \o << NL >>
      [] h = "comment131" -> CommentText \o Rep(120, 121) \o << NL >>

\* the ASCII armor of a packet
Armor(pkt, h) ==
    HeaderLine \o ArmorHeaders(h) \o << NL >> \o Wrap64(B64Enc(pkt)) \o FooterLine

\* text that starts like an armored key and is not the armor of a packet
Damaged(t, h) ==
    LET body == B64Enc(Packet(t, 48))
    IN  CASE h = "joined" -> Dashes \o body \o << NL >> \o FooterLine
          [] h = "blanks" -> HeaderLine \o << NL >> \o SubSeq(body, 1, 5)
                             \o << 32, 32 >> \o SubSeq(body, 8, 64) \o << NL >>
                             \o FooterLine
          [] h = "pad"    -> HeaderLine \o << NL >> \o SubSeq(body, 1, 6)
                             \o << Eq >> \o SubSeq(body, 8, 64) \o << NL >>
                             \o FooterLine
          [] h = "nul"    -> HeaderLine \o << NL >> \o body \o << 65, 0 >>
                             \o Dashes \o << NL >> \o FooterLine
          [] h = "short"  -> HeaderLine \o << NL >> \o SubSeq(body, 1, 40)
                             \o << NL >> \o FooterLine

\* a raw file whose first four bytes are dashes: three, then the first byte of
\* the creation time
DashedRaw(t, n) ==
    << Dash, Dash, Dash >> \o t \o [i \in 1..(n - 7) |-> (i * 37 + 11) % 256]

RawContents ==
    { [k |-> "raw", t |-> t, n |-> n, h |-> "none"] : t \in Times, n \in {7, 60} }
    \cup { [k |-> "raw", t |-> T0, n |-> n, h |-> "none"] : n \in {0, 3, 5, 6} }
    \cup { [k |-> "raw", t |-> << 45, 83, 241, 0 >>, n |-> 60, h |-> "dashed"] }

ArmorContents ==
    { [k |-> "armor", t |-> t, n |-> 60, h |-> h] :
        t \in Times, h \in {"none", "comment65"} }
    \cup { [k |-> "armor", t |-> << 101, 83, 241, 1 >>, n |-> n, h |-> h] :
        n \in {48, 60}, h \in {"version", "comment99", "comment131"} }
    \cup { [k |-> "armor", t |-> T0, n |-> n, h |-> "none"] : n \in {45, 46} }

DamagedContents ==
    { [k |-> "damaged", t |-> T0, n |-> 48, h |-> h] :
        h \in {"joined", "blanks", "pad", "nul", "short"} }

Contents == RawContents \cup ArmorContents \cup DamagedContents

BytesOf(c) ==
    CASE c.k = "raw"     -> IF c.h = "dashed" THEN DashedRaw(c.t, c.n)
                            ELSE IF c.n >= 7 THEN Packet(c.t, c.n)
                            ELSE SubSeq(Packet(c.t, 7), 1, c.n)
      [] c.k = "armor"   -> Armor(Packet(c.t, c.n), c.h)
      [] c.k = "damaged" -> Damaged(c.t, c.h)

\* the disk: every content's bytes
Disk == [c \in Contents |-> BytesOf(c)]

Bytes(c) == Disk[c]

-----------------------------------------------------------------------------
(* Files, names and directory entries *)

EmptyContent == [k |-> "raw", t |-> T0, n |-> 0, h |-> "none"]
SampleRaw == [k |-> "raw", t |-> T0, n |-> 60, h |-> "none"]

\* a regular, readable, seekable file holding content c
Reg(c) == [kind |-> "reg", openable |-> TRUE, seekable |-> TRUE, c |-> c]
\* no file at that path
Absent == [kind |-> "absent", openable |-> FALSE, seekable |-> FALSE, c |-> EmptyContent]
\* a directory
Directory == [kind |-> "dir", openable |-> TRUE, seekable |-> FALSE, c |-> EmptyContent]
\* an entry stat fails on (a dangling symbolic link)
Dangling == [kind |-> "nostat", openable |-> FALSE, seekable |-> FALSE, c |-> SampleRaw]
\* a file fopen fails on (no read permission)
Unreadable == [kind |-> "reg", openable |-> FALSE, seekable |-> TRUE, c |-> SampleRaw]
\* a file fseek fails on (a pipe, a failing device)
Unseekable == [kind |-> "reg", openable |-> TRUE, seekable |-> FALSE, c |-> SampleRaw]

Files == { Reg(c) : c \in Contents } \cup {Directory, Dangling, Unreadable, Unseekable}

FewFiles == { Reg(SampleRaw), Reg(EmptyContent), Directory,
              Reg([k |-> "armor", t |-> << 101, 83, 241, 1 >>, n |-> 60, h |-> "none"]) }

PrimaryFiles ==
    { Reg(SampleRaw), Reg([k |-> "raw", t |-> T0, n |-> 3, h |-> "none"]),
      Reg([k |-> "armor", t |-> T0, n |-> 60, h |-> "none"]),
      Reg([k |-> "damaged", t |-> T0, n |-> 48, h |-> "short"]),
      Reg([k |-> "damaged", t |-> T0, n |-> 48, h |-> "blanks"]),
      Unreadable, Unseekable }

\* a file name: its first character followed by len - 1 letters
ShortName == [first |-> "k", len |-> 8]
HiddenName == [first |-> ".", len |-> 8]
LongName == [first |-> "k", len |-> NAME_MAX]
PrimaryName == [first |-> "p", len |-> 7]

\* the first n characters of a name
Prefix(name, n) == [name EXCEPT !.len = Min(name.len, n)]

SourceDir == "SRC"
DestDir == "DEST"
PrimaryPath == [dir |-> "", name |-> PrimaryName]

\* file_path_len = strlen(source_dir) + NAME_MAX + 1, and the same for dest
PathBufLen(dir) == Len(dir) + NAME_MAX + 1

\* snprintf(buf, size, "%s/%s", dir, name): at most size - 1 characters
Snprintf(size, dir, name) ==
    [dir |-> dir, name |-> Prefix(name, (size - 1) - (Len(dir) + 1))]

\* what readdir may return: the name, the file of that name (own) and the
\* file, if any, whose name is that name cut to the path buffer (other)
Entries ==
    { [d_name |-> ShortName, own |-> f, other |-> Absent] : f \in Files }
    \cup { [d_name |-> HiddenName, own |-> f, other |-> Absent] : f \in FewFiles }
    \cup { [d_name |-> LongName, own |-> f, other |-> g] :
             f \in FewFiles, g \in {Absent, Reg(SampleRaw)} }

NoEntry == [d_name |-> ShortName, own |-> Absent, other |-> Absent]

\* the file a path of the source directory names
Lookup(e, p) == IF p.name = e.d_name THEN e.own ELSE e.other

\* the memory of an uninitialised unsigned int
Junk == { Rep(g, 4) : g \in {0, 165} }

NoFile == [fd |-> 0, pos |-> 0]

Msg(m, p) == [msg |-> m, path |-> p]

-----------------------------------------------------------------------------
(* stdio *)

\* fopen: the lowest free handle
NewFd(hs) == CHOOSE n \in 1..(Cardinality(hs) + 1) :
                n \notin hs /\ \A m \in 1..(n - 1) : m \in hs

\* fclose(file)
Fclose(hs, fd) == hs \ {fd}

\* a seek relative to the cursor, as SEEK_CUR would make it
SeekCur(pos, off) == pos + off

\* fseek(file, off, SEEK_SET): the new cursor
SeekSet(pos, off) == off

\* fread(buf, 1, n, file) at cursor pos: the bytes read
Fread(bytes, pos, n) == SubSeq(bytes, pos + 1, Min(pos + n, Len(bytes)))

\* fgets(line, size, file) at cursor pos: the bytes read (<< >>: NULL), up to
\* size - 1 of them, ending with the first newline
Fgets(bytes, pos, size) ==
    LET max == Min(size - 1, Len(bytes) - pos)
        nls == { i \in 1..max : bytes[pos + i] = NL }
        k == IF nls = {} THEN max
             ELSE CHOOSE i \in nls : \A j \in nls : i <= j
    IN  SubSeq(bytes, pos + 1, pos + k)

\* memory m after n bytes b were stored at its start
Store(m, b) == b \o SubSeq(m, Len(b) + 1, Len(m))

\* ntohl on the bytes of a value
Ntohl(m, le) == IF le THEN << m[4], m[3], m[2], m[1] >> ELSE m

-----------------------------------------------------------------------------
(* Decisions of the code *)

\* a usage check that knows report mode only
BadUsageNotTwo(n) == n # 2

\* argc != 2 && argc != 4
BadUsage(n) == n # 2 /\ n # 4

\* memcmp(key_armor_check_buf, "-----", 5) == 0
IsArmored(buf) == buf = Dashes

\* strchr(line, '-') || strchr(line, ':'), or a length other than 65
SkipLine(line) ==
    \/ Strchr(line, Dash) \/ Strchr(line, Colon)
    \/ Len(line) # LineBuf - 2

\* the string handed to the decoder: 6 characters of the line, then "=="
PaddedSlice(line) ==
    SubSeq(line, Base64Offset + 1, Base64Offset + 6) \o << Eq, Eq >>

\* stat(file_path, &stbuf) == -1
StatFails(f) == f.kind \in {"absent", "nostat"}

\* the three silent filters of the scan loop
SkipEntry(f, name) ==
    \/ f.kind = "dir"
    \/ Len(Bytes(f.c)) = 0
    \/ name.first = "."

\* a comparison that leaves out equality
StrictlyLater(t, q) == UGe(t, q) /\ t # q

\* timestamp >= timestamp_query, on unsigned ints
Compatible(t, q) == UGe(t, q)

\* a move made in either mode
MoveAlways(n) == TRUE

\* the move is made in filter mode only
MoveMode(n) == n = 4

\* *out_timestamp
OutMem == IF caller = "primary" THEN timestamp_query ELSE timestamp

SetOutMem(m) ==
    IF caller = "primary"
    THEN timestamp_query' = m /\ UNCHANGED timestamp
    ELSE timestamp' = m /\ UNCHANGED timestamp_query

\* an error return that writes no diagnostic
FailClosedSilently(m) ==
    /\ diag' = diag
    /\ handles' = Fclose(handles, file.fd)
    /\ file' = NoFile
    /\ ret' = 1
    /\ pc' = "return"

\* an error return that leaves the file open
FailLeaked(m) ==
    /\ diag' = Append(diag, Msg(m, path))
    /\ handles' = handles
    /\ file' = NoFile
    /\ ret' = 1
    /\ pc' = "return"

\* the error returns of pgp_key_extract_timestamp after fopen succeeded
FailClosed(m) ==
    /\ diag' = Append(diag, Msg(m, path))
    /\ handles' = Fclose(handles, file.fd)
    /\ file' = NoFile
    /\ ret' = 1
    /\ pc' = "return"

ExitWith(code) == pc' = "exit" /\ exitCode' = code

-----------------------------------------------------------------------------
(* The program *)

Init ==
    /\ argc \in 1..5
    /\ pc = "start"
    /\ exitCode = -1
    /\ hostLE \in BOOLEAN
    /\ timestamp_query \in Junk
    /\ timestamp \in Junk
    /\ primary \in (IF argc = 4 THEN PrimaryFiles ELSE {Absent})
    /\ fault = "none"
    /\ nread = 0
    /\ ent = NoEntry
    /\ caller = "none"
    /\ path = PrimaryPath
    /\ cur = Absent
    /\ handles = {}
    /\ file = NoFile
    /\ ret = -1
    /\ diag = << >>
    /\ out = << >>
    /\ calls = 0
    /\ ops = << >>
    /\ sel = -1
    /\ written = -1

\* main, up to the call on the primary key
CheckArgs ==
    /\ pc = "start"
    /\ IF BadUsage(argc)
       THEN /\ diag' = Append(diag, Msg("Usage", PrimaryPath))
            /\ ExitWith(1)
            /\ UNCHANGED <<caller, path, cur>>
       ELSE IF argc = 4
       THEN /\ caller' = "primary"
            /\ path' = PrimaryPath
            /\ cur' = primary
            /\ pc' = "fopen"
            /\ UNCHANGED <<diag, exitCode>>
       ELSE /\ pc' = "opendir"
            /\ UNCHANGED <<diag, exitCode, caller, path, cur>>
    /\ UNCHANGED <<argc, hostLE, timestamp_query, timestamp, primary, fault,
                   nread, ent, handles, file, ret, out, calls, ops, sel, written>>

\* pgp_key_extract_timestamp: fopen(file_path, "rb")
Fopen ==
    /\ pc = "fopen"
    /\ ops' = Append(ops, [op |-> "fopen", mode |-> "rb", from |-> path, to |-> path,
                           ok |-> cur.openable])
    /\ IF ~cur.openable
       THEN /\ diag' = Append(diag, Msg("Failed to open PGP key", path))
            /\ ret' = 1
            /\ pc' = "return"
            /\ UNCHANGED <<handles, file>>
       ELSE /\ handles' = handles \cup {NewFd(handles)}
            /\ file' = [fd |-> NewFd(handles), pos |-> 0]
            /\ pc' = "armor_check"
            /\ UNCHANGED <<diag, ret>>
    /\ UNCHANGED <<argc, exitCode, hostLE, timestamp_query, timestamp, primary,
                   fault, nread, ent, caller, path, cur, out, calls, sel, written>>

\* pgp_key_extract_timestamp: the read of 5 bytes and the memcmp
ArmorCheck ==
    /\ pc = "armor_check"
    /\ LET buf == Fread(Bytes(cur.c), file.pos, ArmorCheckLen)
       IN  IF Len(buf) < ArmorCheckLen
           THEN FailClosed("Failed to read PGP key")
           ELSE /\ file' = [file EXCEPT !.pos = file.pos + Len(buf)]
                /\ pc' = IF IsArmored(buf) THEN "dearmor" ELSE "raw"
                /\ UNCHANGED <<diag, handles, ret>>
    /\ UNCHANGED <<argc, exitCode, hostLE, timestamp_query, timestamp, primary,
                   fault, nread, ent, caller, path, cur, out, calls, ops, sel,
                   written>>

\* pgp_key_raw_extract_timestamp and its caller's error branch
RawExtract ==
    /\ pc = "raw"
    /\ IF ~cur.seekable
       THEN /\ FailClosed("Failed to extract timestamp from raw PGP key")
            /\ UNCHANGED <<timestamp_query, timestamp>>
       ELSE LET at == SeekSet(file.pos, TimestampOffset)
                buf == Fread(Bytes(cur.c), at, TimestampSize)
            IN  /\ SetOutMem(Store(OutMem, buf))
                /\ IF Len(buf) < TimestampSize
                   THEN FailClosed("Failed to extract timestamp from raw PGP key")
                   ELSE /\ file' = [file EXCEPT !.pos = at + Len(buf)]
                        /\ pc' = "ntohl"
                        /\ UNCHANGED <<diag, handles, ret>>
    /\ UNCHANGED <<argc, exitCode, hostLE, primary, fault, nread, ent, caller,
                   path, cur, out, calls, ops, sel, written>>

\* pgp_key_dearmor_extract_timestamp: one turn of its while loop, and its
\* caller's error branch
DearmorLine ==
    /\ pc = "dearmor"
    /\ LET chunk == Fgets(Bytes(cur.c), file.pos, LineBuf)
           line == CStr(chunk)
       IN  IF chunk = << >>
           THEN /\ FailClosed("Failed to dearmor and extract timestamp from PGP key")
                /\ UNCHANGED <<timestamp_query, timestamp, sel, written>>
           ELSE /\ file' = [file EXCEPT !.pos = file.pos + Len(chunk)]
                /\ UNCHANGED <<diag, handles, ret>>
                /\ IF SkipLine(line)
                   THEN /\ pc' = "dearmor"
                        /\ UNCHANGED <<timestamp_query, timestamp, sel, written>>
                   ELSE LET o == G_base64_decode_step(PaddedSlice(line))
                        IN  /\ SetOutMem(Store(OutMem, o))
                            /\ written' = Len(o)
                            /\ sel' = file.pos
                            /\ pc' = "ntohl"
    /\ UNCHANGED <<argc, exitCode, hostLE, primary, fault, nread, ent, caller,
                   path, cur, out, calls, ops>>

\* pgp_key_extract_timestamp: ntohl, fclose, return 0
Finish ==
    /\ pc = "ntohl"
    /\ SetOutMem(Ntohl(OutMem, hostLE))
    /\ handles' = Fclose(handles, file.fd)
    /\ file' = NoFile
    /\ ret' = 0
    /\ pc' = "return"
    /\ UNCHANGED <<argc, exitCode, hostLE, primary, fault, nread, ent, caller,
                   path, cur, diag, out, calls, ops, sel, written>>

\* main, after the call on the primary key: the fatal error, or the
\* allocation of dest_file_path
PrimaryReturn ==
    /\ pc = "return"
    /\ caller = "primary"
    /\ IF ret # 0
       THEN /\ diag' = Append(diag, Msg("Failed to read from primary PGP key!", path))
            /\ ExitWith(1)
            /\ UNCHANGED fault
       ELSE \E mallocOk \in BOOLEAN :
              IF mallocOk
              THEN /\ diag' = Append(diag, Msg("Primary PGP key timestamp", path))
                   /\ pc' = "opendir"
                   /\ UNCHANGED <<exitCode, fault>>
              ELSE /\ diag' = Append(Append(diag, Msg("Primary PGP key timestamp", path)),
                                     Msg("Failed to allocate destination file path", path))
                   /\ fault' = "malloc_dest"
                   /\ ExitWith(1)
    /\ UNCHANGED <<argc, hostLE, timestamp_query, timestamp, primary, nread, ent,
                   caller, path, cur, handles, file, ret, out, calls, ops, sel,
                   written>>

\* main: opendir and the allocation of file_path
OpenDir ==
    /\ pc = "opendir"
    /\ \E f \in {"none", "opendir", "malloc_path"} :
         /\ fault' = f
         /\ IF f = "none"
            THEN /\ pc' = "readdir"
                 /\ UNCHANGED <<exitCode, diag>>
            ELSE /\ diag' = Append(diag, Msg(IF f = "opendir" THEN "Can't open directory"
                                             ELSE "Failed to allocate file path",
                                             [dir |-> SourceDir, name |-> ShortName]))
                 /\ ExitWith(1)
    /\ UNCHANGED <<argc, hostLE, timestamp_query, timestamp, primary, nread, ent,
                   caller, path, cur, handles, file, ret, out, calls, ops, sel,
                   written>>

\* main: one turn of the scan loop, up to the call on the entry
ReadDir ==
    /\ pc = "readdir"
    /\ nread < MaxEntries
    /\ \E e \in Entries :
         LET p == Snprintf(PathBufLen(SourceDir), SourceDir, e.d_name)
             f == Lookup(e, p)
         IN  /\ ent' = e
             /\ nread' = nread + 1
             /\ path' = p
             /\ cur' = f
             /\ caller' = "scan"
             /\ out' = << >>
             /\ ops' = << >>
             /\ ret' = -1
             /\ sel' = -1
             /\ written' = -1
             /\ IF StatFails(f)
                THEN /\ diag' = << Msg("Unable to stat file", p) >>
                     /\ calls' = 0
                     /\ pc' = "readdir"
                ELSE IF SkipEntry(f, e.d_name)
                THEN /\ diag' = << >>
                     /\ calls' = 0
                     /\ pc' = "readdir"
                ELSE /\ diag' = << Msg("Opening", p) >>
                     /\ calls' = 1
                     /\ pc' = "fopen"
    /\ UNCHANGED <<argc, exitCode, hostLE, timestamp_query, timestamp, primary,
                   fault, handles, file>>

\* main, after the call on an entry: the report and the move
ScanReturn ==
    /\ pc = "return"
    /\ caller = "scan"
    /\ pc' = "readdir"
    /\ IF ret # 0
       THEN UNCHANGED <<out, diag, ops>>
       ELSE /\ out' = Append(out, Value(timestamp, hostLE))
            /\ IF MoveMode(argc) /\ Compatible(Value(timestamp, hostLE),
                                               Value(timestamp_query, hostLE))
               THEN \E renameOk \in BOOLEAN :
                      /\ ops' = Append(ops,
                            [op |-> "rename", mode |-> "", from |-> path,
                             to |-> Snprintf(PathBufLen(DestDir), DestDir, ent.d_name),
                             ok |-> renameOk])
                      /\ diag' = IF renameOk
                                 THEN Append(diag, Msg("Moving compatible PGP subkey", path))
                                 ELSE Append(Append(diag,
                                                Msg("Moving compatible PGP subkey", path)),
                                             Msg("Failed to move PGP key file", path))
               ELSE UNCHANGED <<diag, ops>>
    /\ UNCHANGED <<argc, exitCode, hostLE, timestamp_query, timestamp, primary,
                   fault, nread, ent, caller, path, cur, handles, file, ret, calls,
                   sel, written>>

\* main: readdir returns NULL; free, closedir, and the end of main
EndOfDir ==
    /\ pc = "readdir"
    /\ ExitWith(0)
    /\ UNCHANGED <<argc, hostLE, timestamp_query, timestamp, primary, fault, nread,
                   ent, caller, path, cur, handles, file, ret, diag, out, calls,
                   ops, sel, written>>

Next ==
    \/ CheckArgs
    \/ Fopen
    \/ ArmorCheck
    \/ RawExtract
    \/ DearmorLine
    \/ Finish
    \/ PrimaryReturn
    \/ OpenDir
    \/ ReadDir
    \/ ScanReturn
    \/ EndOfDir

Spec == Init /\ [][Next]_vars

-----------------------------------------------------------------------------
(* Properties *)

\* the scan has finished with the entry readdir returned last
EntryDone == pc = "readdir" /\ nread > 0

\* pgp_key_extract_timestamp has just returned
Returned == pc = "return"

HasMsg(m, p) == \E i \in DOMAIN diag : diag[i] = Msg(m, p)

Renames == { i \in DOMAIN ops : ops[i].op = "rename" }

\* the newline-delimited line of a file that holds position p (from 1)
LineStart(b, p) ==
    LET before == { i \in 1..(p - 1) : b[i] = NL }
    IN  IF before = {} THEN 1
        ELSE (CHOOSE i \in before : \A j \in before : j <= i) + 1

LineEnd(b, p) ==
    LET after == { i \in p..Len(b) : b[i] = NL }
    IN  IF after = {} THEN Len(b)
        ELSE CHOOSE i \in after : \A j \in after : i <= j

FileLine(b, p) == SubSeq(b, LineStart(b, p), LineEnd(b, p))

\* C1: an armored key built from a raw packet (64-character base64 lines, a
\* valid header line, optional Comment:/Version: lines, a blank line, a valid
\* footer) yields success and the timestamp the raw path reads from the packet
\* itself.  Stated for packets of at least 46 bytes, whose base64 fills a
\* first line of 64 characters, as every version-4 key packet does.
C1_ArmoredEqualsRaw ==
    (Returned /\ cur.kind = "reg" /\ cur.openable /\ cur.c.k = "armor"
        /\ cur.c.n >= 46)
    => /\ ret = 0
       /\ Value(OutMem, hostLE) = SubSeq(Packet(cur.c.t, cur.c.n), 4, 7)

\* C2: a readable file of at least 7 bytes that does not start with "-----"
\* yields success and the big-endian value of its bytes at offsets 3..6.
C2_RawRoundTrip ==
    (Returned /\ cur.kind = "reg" /\ cur.openable /\ cur.seekable
        /\ Len(Bytes(cur.c)) >= 7
        /\ SubSeq(Bytes(cur.c), 1, 5) # << 45, 45, 45, 45, 45 >>)
    => /\ ret = 0
       /\ Value(OutMem, hostLE) = SubSeq(Bytes(cur.c), 4, 7)

C2_Witness ==
    /\ Returned /\ caller = "scan" /\ ret = 0 /\ hostLE
    /\ cur = Reg([k |-> "raw", t |-> << 45, 83, 241, 0 >>, n |-> 60, h |-> "dashed"])
    /\ timestamp = << 0, 241, 83, 45 >>

\* C3: the six characters the armored extractor decodes never come from a
\* line of the file that contains '-' or ':'.
C3_NoDashColonLineSelected ==
    sel >= 0 =>
        LET l == FileLine(Bytes(cur.c), sel + 5)
        IN  \A i \in 1..Len(l) : l[i] # 45 /\ l[i] # 58

\* C4: in filter mode, for an entry whose extraction succeeded with value t,
\* exactly one rename is issued when t >= p and none otherwise, from the
\* entry's path to the same name in DEST_DIR; t = p is moved, t = p - 1 is
\* not; an entry whose extraction failed, or one in report mode, is not moved.
C4_MoveIffCompatible ==
    EntryDone =>
        /\ (argc = 4 /\ calls = 1 /\ ret = 0) =>
              /\ Len(out) = 1
              /\ (Renames # {}) <=> UGe(out[1], Value(timestamp_query, hostLE))
              /\ (out[1] = Value(timestamp_query, hostLE)) => Renames # {}
              /\ (Value(timestamp_query, hostLE) = T0
                    /\ out[1] = << 101, 83, 240, 255 >>) => Renames = {}
        /\ (argc # 4 \/ calls = 0 \/ ret # 0) => Renames = {}
        /\ Cardinality(Renames) <= 1
        /\ \A i \in Renames :
              /\ ops[i].from = path
              /\ ops[i].to = [dir |-> DestDir, name |-> path.name]

C4_Witness ==
    /\ EntryDone /\ argc = 4 /\ calls = 1 /\ ret = 0
    /\ out = << T0 >> /\ Value(timestamp_query, hostLE) = T0
    /\ Renames # {}

FailureMsgs ==
    { "Unable to stat file", "Failed to open PGP key", "Failed to read PGP key",
      "Failed to extract timestamp from raw PGP key",
      "Failed to dearmor and extract timestamp from PGP key",
      "Failed to move PGP key file" }

\* C5 as claimed: every entry left out of the result set, skipped or failed,
\* has a diagnostic naming it and the cause.
C5_EveryExcludedNamed ==
    (EntryDone /\ (out = << >> \/ \E i \in Renames : ~ops[i].ok))
    => \E i \in DOMAIN diag : diag[i].path = path /\ diag[i].msg \in FailureMsgs

\* the message the failed step of an extraction writes
ExpectedFailure(f) ==
    IF ~f.openable THEN "Failed to open PGP key"
    ELSE IF Len(Bytes(f.c)) < 5 THEN "Failed to read PGP key"
    ELSE IF SubSeq(Bytes(f.c), 1, 5) = << 45, 45, 45, 45, 45 >>
    THEN "Failed to dearmor and extract timestamp from PGP key"
    ELSE "Failed to extract timestamp from raw PGP key"

\* C5 as amended: an entry whose stat, extraction or move failed has a
\* diagnostic carrying the path built for it and the failed step; an entry
\* skipped as a directory, an empty file or a hidden file has none.
C5_FailuresNamed ==
    EntryDone =>
        /\ (cur.kind \in {"absent", "nostat"}) => HasMsg("Unable to stat file", path)
        /\ (calls = 1 /\ ret = 1) => HasMsg(ExpectedFailure(cur), path)
        /\ (\E i \in Renames : ~ops[i].ok) => HasMsg("Failed to move PGP key file", path)
        /\ (cur.kind \notin {"absent", "nostat"} /\ calls = 0) => diag = << >>

C5_Witness ==
    /\ EntryDone /\ calls = 1 /\ ret = 1
    /\ cur = Reg([k |-> "damaged", t |-> T0, n |-> 48, h |-> "short"])
    /\ HasMsg("Failed to dearmor and extract timestamp from PGP key", path)

\* C6 as claimed: the exit code is 1 exactly on a usage error or on a failed
\* extraction of the primary key, and 0 in every other run.
C6_ExitOneOnlyUsageOrPrimary ==
    pc = "exit" =>
        /\ exitCode \in {0, 1}
        /\ exitCode = 1 <=> \/ argc \notin {2, 4}
                            \/ (argc = 4 /\ caller = "primary" /\ ret = 1)

\* C6 as amended: the exit code is 1 exactly on a usage error, a failed
\* extraction of the primary key, a failed opendir of the source directory or
\* a failed allocation of a path buffer; every other run goes on to the end
\* of the enumeration, whatever fails on an entry, and exits with 0.
C6_ExitCodes ==
    /\ pc = "exit" =>
        /\ exitCode \in {0, 1}
        /\ exitCode = 1 <=> \/ argc \notin {2, 4}
                            \/ (argc = 4 /\ caller = "primary" /\ ret = 1)
                            \/ fault # "none"
    /\ pc # "exit" =>
        /\ exitCode = -1
        /\ pc \in {"start", "fopen", "armor_check", "raw", "dearmor", "ntohl",
                   "return", "opendir", "readdir"}
        /\ pc = "return" => caller \in {"primary", "scan"}
        /\ (pc = "return" /\ caller = "scan") => fault = "none"

C6_Witness ==
    /\ pc = "exit" /\ exitCode = 0 /\ argc = 4
    /\ calls = 1 /\ ret = 1 /\ caller = "scan"

\* C7: the extraction is called once on an enumerated entry that is stat-able,
\* not a directory, not empty and not hidden, with that entry's path, and
\* never on another entry.
C7_EligibleEntriesExtractedOnce ==
    EntryDone =>
        /\ calls <= 1
        /\ calls = 1 <=> /\ ent.own.kind = "reg"
                         /\ Len(Bytes(ent.own.c)) > 0
                         /\ ent.d_name.first # "."
        /\ calls = 1 => path = [dir |-> SourceDir, name |-> ent.d_name]

\* C8: at most one key-file handle is open, and none outside a call of
\* pgp_key_extract_timestamp: whichever way the call returns, the handle it
\* opened is closed.
C8_HandlesClosed ==
    /\ Cardinality(handles) <= 1
    /\ pc \in {"start", "fopen", "return", "opendir", "readdir", "exit"}
          => handles = {}
    /\ pc \in {"armor_check", "raw", "dearmor", "ntohl"} => handles = {file.fd}

C8_Witness ==
    /\ Returned /\ ret = 1 /\ nread = 2 /\ handles = {}
    /\ HasMsg("Failed to extract timestamp from raw PGP key", path)

C10_DecodeWritesFour ==
    written # -1 => written = 4

=============================================================================
